---- MODULE Spec2Model ----
(***************************************************************************)
(* Appointment workflow of the staff console (VisioWidget, api_cloud.py).  *)
(*                                                                         *)
(* The local store holds the rendez_vous rows.  The console keeps two      *)
(* views of it: the table of pending requests filled by load_demandes,     *)
(* whose buttons capture the row objects, and the RendezVous objects held  *)
(* by the planning calendar, which are the arguments of start_call,        *)
(* finish_rdv, cancel_rdv and delete_rdv.  Both views are snapshots: they  *)
(* are refreshed only where the code reloads them.                         *)
(*                                                                         *)
(* The same store holds the residents and the families; a family with      *)
(* actif = False is a registration waiting for approval.  The local        *)
(* availability rows are copied to the table of the web portal by          *)
(* synchroniser_disponibilites.                                            *)
(***************************************************************************)
EXTENDS Integers, Naturals, FiniteSets, Sequences, Bags, TLC

\* ---------------------------------------------------------------- bounds
MaxResident == 2
MaxDate == 1
MaxJour == 1

\* Two appointments: the least number in which two requests can ask for the
\* same resident and date, and in which one row of a view can be stale while
\* the other is fresh.
RdvIds == {1, 2}
ResidentIds == 1..MaxResident
Dates == 1..MaxDate

\* ------------------------------------------------------- data of the store
EN_ATTENTE == "En attente"
PLANIFIE == "Planifié"
CONFIRME == "Confirmé"
REFUSE == "Refusé"
ANNULE == "Annulé"
EN_COURS == "En cours"
TERMINE == "Terminé"

\* The statuses the console queries for or writes.
Statuts == {EN_ATTENTE, PLANIFIE, CONFIRME, REFUSE, ANNULE, EN_COURS, TERMINE}

Terminal == {REFUSE, ANNULE, TERMINE}

\* An empty lien_jitsi (None or ""): `not demande_db.lien_jitsi`.
NoUrl == <<>>

\* A link the row already carried when the request reached the local store,
\* one per appointment.
PortalLink(id) == <<"portal", id>>

\* date_rdv.strftime("%Y%m%d%H%M%S"): the fields of the date in that order;
\* date d stands for 2025-03-10 14:0d:00.
strftime(d) == <<2025, 3, 10, 14, d, 0>>

\* f"https://meet.jit.si/MelyEHPAD-{resident_id}-{timestamp}"
JitsiLink(resident_id, timestamp) == <<"https://meet.jit.si/MelyEHPAD", resident_id, timestamp>>

Urls == {NoUrl} \cup {PortalLink(i) : i \in RdvIds}
          \cup {JitsiLink(r, strftime(d)) : r \in ResidentIds, d \in Dates}

NoRow == [absent |-> TRUE]

Rows == [statut : Statuts, lien_jitsi : Urls, resident_id : ResidentIds, date_rdv : Dates]

NoObj == [held |-> FALSE]

\* Two families: one can wait for approval while the other is active.
FamilleIds == {1, 2}

ResidentRows == [actif : BOOLEAN]

FamilleRows == [actif : BOOLEAN, resident_id : ResidentIds]

\* Availability rows: the columns the synchronisation copies.  Two local rows
\* can be equal in every column, which a table without a key keeps apart.
DispoIds == {1, 2}

Jours == 0..MaxJour

DispoRows == [jour_semaine : Jours, heure_debut : {"14:00"}, heure_fin : {"15:00"},
              type : {"visio"}, actif : BOOLEAN]

VARIABLES
    rendez_vous,     \* the local store: RdvIds -> a row, or NoRow once deleted
    table_demandes,  \* ids of the row objects captured by the buttons of the requests table
    calendar_rdvs,   \* RendezVous objects held by the planning view: id -> object or NoObj
    last,            \* what the most recent handler did and reported
    calls,           \* the commits, rollbacks and email_service calls of that handler, in order
    residents,       \* the local store: ResidentIds -> a row, or NoRow once deleted
    familles,        \* the local store: FamilleIds -> a row, or NoRow once deleted
    table_inscriptions,  \* ids of the Famille objects captured by the registrations table
    table_residents, \* ids of the Resident objects captured by the residents table
    disponibilites,  \* the local store: DispoIds -> an availability row, or NoRow
    cloud_disponibilites,  \* the table disponibilites of the portal database, a bag of rows
    table_familles,  \* ids of the Famille objects captured by the families table
    rdv_famille,     \* the column famille_id of rendez_vous: RdvIds -> FamilleIds
    cloud_familles,  \* ids of the families the portal API holds as not deleted
    cloud_residents, \* the residents of the portal: ResidentIds -> a row, or NoRow
    sessions,        \* number of store sessions, local and cloud, that are open
    shown            \* whether the widget is visible

vars == <<rendez_vous, table_demandes, calendar_rdvs, last, calls, residents, familles,
          table_inscriptions, table_residents, disponibilites, cloud_disponibilites,
          table_familles, rdv_famille, cloud_familles, cloud_residents, sessions, shown>>

\* What no handler of the local store writes: the famille_id of an
\* appointment, the families and residents of the portal, the visibility of
\* the widget.
console_frame == <<rdv_famille, cloud_familles, cloud_residents, shown>>

\* What the handlers of the appointments never touch.
rdv_frame == <<residents, familles, table_inscriptions, table_residents,
               disponibilites, cloud_disponibilites, table_familles, console_frame>>

\* db.query(RendezVous).get(id)
Get(id) == rendez_vous[id]

\* db.query(RendezVous).filter(statut == "En attente"): the rows load_demandes shows.
Pending(store) == {i \in RdvIds : store[i] # NoRow /\ store[i].statut = EN_ATTENTE}

\* The objects the planning calendar holds after its load_month: one per stored
\* row, carrying the lien_jitsi the row had at that moment.  The calendar is
\* taken to show every appointment, pending ones included, since staff can
\* act on an appointment of any non-terminal status and the planning queries
\* also list the finished ones.
Snapshot(store) ==
    [i \in RdvIds |-> IF store[i] = NoRow THEN NoObj
                      ELSE [held |-> TRUE, lien_jitsi |-> store[i].lien_jitsi]]

\* What a handler leaves behind for the staff: the dialog answer, whether its
\* db.commit() returned, the message box it showed, the URL it opened, and the
\* row as stored when it was invoked.
Report(op, id, answer, committed, report, opened) ==
    [op |-> op, id |-> id, answer |-> answer, committed |-> committed, report |-> report,
     pre |-> rendez_vous[id], opened |-> opened]

\* ------------------------------------------------------------------ Init
\* Famille.actif == False: the registrations load_inscriptions shows.
Inscriptions(store) == {f \in FamilleIds : store[f] # NoRow /\ ~store[f].actif}

\* Famille.actif == True: the families load_familles shows.
ActiveFamilles(store) == {f \in FamilleIds : store[f] # NoRow /\ store[f].actif}

\* Resident.actif == True: the residents load_residents shows.
ActiveResidents(store) == {r \in ResidentIds : store[r] # NoRow /\ store[r].actif}

\* The store exists before the console starts and is fed by the portal, so a
\* row may be in any status; a row that has a link has its own.  Every
\* resident and family is active, and no availability has been entered or
\* published.  __init__ runs load_data, which fills the views.
Init ==
    /\ rendez_vous \in [RdvIds -> Rows]
    /\ \A i \in RdvIds : rendez_vous[i].lien_jitsi \in {NoUrl, PortalLink(i)}
    /\ residents = [r \in ResidentIds |-> [actif |-> TRUE]]
    /\ familles = [f \in FamilleIds |-> [actif |-> TRUE, resident_id |-> f]]
    /\ disponibilites = [i \in DispoIds |-> NoRow]
    /\ cloud_disponibilites = EmptyBag
    /\ table_demandes = Pending(rendez_vous)
    /\ calendar_rdvs = Snapshot(rendez_vous)
    /\ table_inscriptions = Inscriptions(familles)
    /\ table_residents = ActiveResidents(residents)
    /\ table_familles = ActiveFamilles(familles)
    /\ rdv_famille = [i \in RdvIds |-> i]
    /\ cloud_familles = FamilleIds
    /\ cloud_residents = [r \in ResidentIds |-> NoRow]
    /\ sessions = 0
    /\ shown = TRUE
    /\ last = Report("__init__", 1, "Yes", FALSE, "none", NoUrl)
    /\ calls = <<>>

\* --------------------------------------------------------------- actions
\* Outcomes of the confirmation email after the commit of accept_demande:
\* is_configured() raises, returns False, or returns True and the send
\* succeeds or raises.
EmailOutcomes == {"config_raises", "not_configured", "sent", "send_raises"}

\* Answers to a QMessageBox.question, and outcomes of a db.commit().
Replies == {"Yes", "No"}

Commits == {"ok", "fail"}

\* db = SessionLocal()
SessionLocal(n) == n + 1

\* Variant of db.close() that leaves the session open.
db_close_skipped(n) == n

\* finally: db.close()
db_close(n) == n - 1

\* A handler that opens its session after a Yes and closes it in its finally;
\* a handler that got No opens none.  The reloads a handler runs open and
\* close their own sessions the same way.
scoped_session(answer, n) == IF answer = "No" THEN n ELSE db_close(SessionLocal(n))

accept_report(email) ==
    CASE email = "config_raises" -> "critical"
      [] email = "not_configured" -> "info"
      [] email = "sent" -> "info_email_sent"
      [] email = "send_raises" -> "info_email_failed"

\* The calls accept_demande makes once its commit has returned.
accept_calls(email) ==
    CASE email = "config_raises" -> <<"commit", "is_configured_raises", "rollback">>
      [] email = "not_configured" -> <<"commit", "is_configured">>
      [] email = "sent" -> <<"commit", "is_configured", "send_rdv_confirmation">>
      [] email = "send_raises" -> <<"commit", "is_configured", "send_rdv_confirmation_raises">>

\* Variants of the link allocation: one that never allocates, one that
\* allocates again over an existing link.
accept_lien_never(row) == row.lien_jitsi

accept_lien_regenerate(row) == JitsiLink(row.resident_id, strftime(row.date_rdv))

accept_lien(row) ==
    IF row.lien_jitsi = NoUrl
    THEN JitsiLink(row.resident_id, strftime(row.date_rdv))
    ELSE row.lien_jitsi

\* The slots taken: rows that are pending, planned or confirmed.
Occupied == {EN_ATTENTE, PLANIFIE, CONFIRME}

SameSlot(row) ==
    {j \in RdvIds : /\ rendez_vous[j] # NoRow
                    /\ rendez_vous[j].statut \in Occupied
                    /\ rendez_vous[j].date_rdv = row.date_rdv}

\* Variant writing a status outside the enum.
accept_row_unknown_statut(row) == [row EXCEPT !.statut = "Accepté", !.lien_jitsi = accept_lien(row)]

\* Variant that leaves the request as it is when another row holds its slot.
accept_row_unless_occupied(row) ==
    IF Cardinality(SameSlot(row)) > 1
    THEN row
    ELSE [row EXCEPT !.statut = PLANIFIE, !.lien_jitsi = accept_lien(row)]

accept_row(row) == [row EXCEPT !.statut = PLANIFIE, !.lien_jitsi = accept_lien(row)]

\* Variant of db.rollback() that takes back the transaction already committed.
rollback_undoes_commit(before, committed) == before

\* db.rollback() in the except branch when the exception came after
\* db.commit() had returned: nothing is pending, the committed rows stay.
rollback_after_commit(before, committed) == committed

accept_demande(d) ==
    /\ d \in table_demandes
    /\ UNCHANGED calendar_rdvs
    /\ UNCHANGED rdv_frame
    /\ \E reply \in Replies :
          IF reply = "No"
          THEN /\ UNCHANGED <<rendez_vous, table_demandes>>
               /\ last' = Report("accept_demande", d, "No", FALSE, "none", NoUrl)
               /\ calls' = <<>>
          ELSE IF Get(d) = NoRow
          THEN /\ UNCHANGED rendez_vous
               /\ table_demandes' = Pending(rendez_vous)
               /\ last' = Report("accept_demande", d, "Yes", FALSE, "none", NoUrl)
               /\ calls' = <<>>
          ELSE \E commit \in Commits :
                  IF commit = "fail"
                  THEN /\ UNCHANGED rendez_vous
                       /\ table_demandes' = Pending(rendez_vous)
                       /\ last' = Report("accept_demande", d, "Yes", FALSE, "critical", NoUrl)
                       /\ calls' = <<"commit_raises", "rollback">>
                  ELSE \E email \in EmailOutcomes :
                          /\ rendez_vous' =
                                IF email = "config_raises"
                                THEN rollback_after_commit(rendez_vous, [rendez_vous EXCEPT ![d] = accept_row(@)])
                                ELSE [rendez_vous EXCEPT ![d] = accept_row(@)]
                          /\ table_demandes' = Pending(rendez_vous')
                          /\ last' = Report("accept_demande", d, "Yes", TRUE, accept_report(email), NoUrl)
                          /\ calls' = accept_calls(email)
    /\ sessions' = scoped_session(last'.answer, sessions)

refuse_row(row) == [row EXCEPT !.statut = REFUSE]

refuse_demande(d) ==
    /\ d \in table_demandes
    /\ UNCHANGED calendar_rdvs
    /\ UNCHANGED rdv_frame
    /\ \E reply \in Replies :
          IF reply = "No"
          THEN /\ UNCHANGED <<rendez_vous, table_demandes>>
               /\ last' = Report("refuse_demande", d, "No", FALSE, "none", NoUrl)
               /\ calls' = <<>>
          ELSE IF Get(d) = NoRow
          THEN /\ UNCHANGED rendez_vous
               /\ table_demandes' = Pending(rendez_vous)
               /\ last' = Report("refuse_demande", d, "Yes", FALSE, "none", NoUrl)
               /\ calls' = <<>>
          ELSE \E commit \in Commits :
                  IF commit = "fail"
                  THEN /\ UNCHANGED rendez_vous
                       /\ table_demandes' = Pending(rendez_vous)
                       /\ last' = Report("refuse_demande", d, "Yes", FALSE, "critical", NoUrl)
                       /\ calls' = <<"commit_raises", "rollback">>
                  ELSE /\ rendez_vous' = [rendez_vous EXCEPT ![d] = refuse_row(@)]
                       /\ table_demandes' = Pending(rendez_vous')
                       /\ last' = Report("refuse_demande", d, "Yes", TRUE, "info", NoUrl)
                       /\ calls' = <<"commit">>
    /\ sessions' = scoped_session(last'.answer, sessions)

\* `rdv.statut = X; db.commit()` where rdv is the caller's object and db a
\* session opened in the handler.  The assignment reaches the store only when
\* rdv belongs to the session that commits (SessionLocal a scoped registry
\* whose session the caller left open); otherwise it stays in memory and the
\* commit has nothing to write.  Both are builds of this code, so the
\* environment chooses.  A flush of an object whose row is gone raises, and so
\* does a failing commit.
FlushOutcomes == {"detached", "flushed", "flush_raises"}

set_statut(id, statut, flush) ==
    IF flush = "flushed" THEN [rendez_vous EXCEPT ![id].statut = statut] ELSE rendez_vous

commit_raises(id, flush) == flush = "flush_raises" \/ (flush = "flushed" /\ Get(id) = NoRow)

\* Variant of the guard of start_call that lets every object through.
has_link_unchecked(obj) == TRUE

\* `if rdv.lien_jitsi:` on the caller's object.
has_link(obj) == obj.lien_jitsi # NoUrl

start_call(o) ==
    /\ calendar_rdvs[o] # NoObj
    /\ UNCHANGED <<table_demandes, calendar_rdvs>>
    /\ UNCHANGED rdv_frame
    /\ IF has_link(calendar_rdvs[o])
       THEN \E flush \in FlushOutcomes :
               IF commit_raises(o, flush)
               THEN /\ UNCHANGED rendez_vous
                    /\ last' = Report("start_call", o, "Yes", FALSE, "raised", calendar_rdvs[o].lien_jitsi)
                    /\ calls' = <<"commit_raises">>
               ELSE /\ rendez_vous' = set_statut(o, EN_COURS, flush)
                    /\ last' = Report("start_call", o, "Yes", TRUE, "none", calendar_rdvs[o].lien_jitsi)
                    /\ calls' = <<"commit">>
       ELSE /\ UNCHANGED rendez_vous
            /\ last' = Report("start_call", o, "Yes", FALSE, "warning", NoUrl)
            /\ calls' = <<>>
    /\ sessions' = IF last'.report = "warning" THEN sessions ELSE db_close(SessionLocal(sessions))

finish_rdv(o) ==
    /\ calendar_rdvs[o] # NoObj
    /\ UNCHANGED <<table_demandes, calendar_rdvs>>
    /\ UNCHANGED rdv_frame
    /\ \E reply \in Replies :
          IF reply = "No"
          THEN /\ UNCHANGED rendez_vous
               /\ last' = Report("finish_rdv", o, "No", FALSE, "none", NoUrl)
               /\ calls' = <<>>
          ELSE \E flush \in FlushOutcomes :
                  IF commit_raises(o, flush)
                  THEN /\ UNCHANGED rendez_vous
                       /\ last' = Report("finish_rdv", o, "Yes", FALSE, "critical", NoUrl)
                       /\ calls' = <<"commit_raises", "rollback">>
                  ELSE /\ rendez_vous' = set_statut(o, TERMINE, flush)
                       /\ last' = Report("finish_rdv", o, "Yes", TRUE, "info", NoUrl)
                       /\ calls' = <<"commit">>
    /\ sessions' = scoped_session(last'.answer, sessions)

cancel_rdv(o) ==
    /\ calendar_rdvs[o] # NoObj
    /\ UNCHANGED <<table_demandes, calendar_rdvs>>
    /\ UNCHANGED rdv_frame
    /\ \E reply \in Replies :
          IF reply = "No"
          THEN /\ UNCHANGED rendez_vous
               /\ last' = Report("cancel_rdv", o, "No", FALSE, "none", NoUrl)
               /\ calls' = <<>>
          ELSE \E flush \in FlushOutcomes :
                  IF commit_raises(o, flush)
                  THEN /\ UNCHANGED rendez_vous
                       /\ last' = Report("cancel_rdv", o, "Yes", FALSE, "critical", NoUrl)
                       /\ calls' = <<"commit_raises", "rollback">>
                  ELSE /\ rendez_vous' = set_statut(o, ANNULE, flush)
                       /\ last' = Report("cancel_rdv", o, "Yes", TRUE, "info", NoUrl)
                       /\ calls' = <<"commit">>
    /\ sessions' = scoped_session(last'.answer, sessions)

delete_rdv(o) ==
    /\ calendar_rdvs[o] # NoObj
    /\ UNCHANGED <<table_demandes, calendar_rdvs>>
    /\ UNCHANGED rdv_frame
    /\ \E reply \in Replies :
          IF reply = "No"
          THEN /\ UNCHANGED rendez_vous
               /\ last' = Report("delete_rdv", o, "No", FALSE, "none", NoUrl)
               /\ calls' = <<>>
          ELSE IF Get(o) = NoRow
          THEN /\ UNCHANGED rendez_vous
               /\ last' = Report("delete_rdv", o, "Yes", FALSE, "warning", NoUrl)
               /\ calls' = <<>>
          ELSE \E commit \in Commits :
                  IF commit = "fail"
                  THEN /\ UNCHANGED rendez_vous
                       /\ last' = Report("delete_rdv", o, "Yes", FALSE, "critical", NoUrl)
                       /\ calls' = <<"commit_raises", "rollback">>
                  ELSE /\ rendez_vous' = [rendez_vous EXCEPT ![o] = NoRow]
                       /\ last' = Report("delete_rdv", o, "Yes", TRUE, "info", NoUrl)
                       /\ calls' = <<"commit">>
    /\ sessions' = scoped_session(last'.answer, sessions)

\* ------------------------------------------------- registrations (families)
\* What a handler of the registrations leaves behind, as Report does; pre is
\* the family row as stored when the handler was invoked.
FamilleReport(op, f, answer, committed, report) ==
    [op |-> op, id |-> f, answer |-> answer, committed |-> committed, report |-> report,
     pre |-> familles[f], opened |-> NoUrl]

\* Outcomes of email_service.send_email inside send_validation_email and
\* send_refusal_email; both catch every exception and print it.
SendOutcomes == {"sent", "send_raises"}

send_email_call(outcome) == IF outcome = "sent" THEN "send_email" ELSE "send_email_raises"

\* Variant of the approval that leaves the flag as it is.
validate_row_unchanged(row) == row

\* famille_db.actif = True
validate_row(row) == [row EXCEPT !.actif = TRUE]

validate_inscription(f) ==
    /\ f \in table_inscriptions
    /\ UNCHANGED <<rendez_vous, table_demandes, calendar_rdvs, residents, table_residents,
                   disponibilites, cloud_disponibilites>>
    /\ UNCHANGED console_frame
    /\ \E reply \in Replies :
          IF reply = "No"
          THEN /\ UNCHANGED <<familles, table_inscriptions, table_familles>>
               /\ last' = FamilleReport("validate_inscription", f, "No", FALSE, "none")
               /\ calls' = <<>>
          ELSE IF familles[f] = NoRow
          THEN /\ UNCHANGED <<familles, table_inscriptions, table_familles>>
               /\ last' = FamilleReport("validate_inscription", f, "Yes", FALSE, "critical")
               /\ calls' = <<"rollback">>
          ELSE \E commit \in Commits :
                  IF commit = "fail"
                  THEN /\ UNCHANGED <<familles, table_inscriptions, table_familles>>
                       /\ last' = FamilleReport("validate_inscription", f, "Yes", FALSE, "critical")
                       /\ calls' = <<"commit_raises", "rollback">>
                  ELSE \E outcome \in SendOutcomes :
                          /\ familles' = [familles EXCEPT ![f] = validate_row(@)]
                          /\ table_inscriptions' = Inscriptions(familles')
                          /\ table_familles' = ActiveFamilles(familles')
                          /\ last' = FamilleReport("validate_inscription", f, "Yes", TRUE, "info_email_sent")
                          /\ calls' = <<"commit", send_email_call(outcome)>>
    /\ sessions' = scoped_session(last'.answer, sessions)

\* The appointments that go with a deleted family: db.delete(famille) takes
\* the appointments of the family with it ("avec cascade : RDV").  The
\* relationship that does so is declared with the Famille model.
cascade_rdvs(store, deleted) ==
    [i \in RdvIds |-> IF store[i] # NoRow /\ rdv_famille[i] \in deleted THEN NoRow ELSE store[i]]

\* db.delete(famille) on the object of the table, then db.commit(): the row
\* goes when it is still there; a DELETE that matches no row is no error.
refuse_inscription(f) ==
    /\ f \in table_inscriptions
    /\ UNCHANGED <<table_demandes, calendar_rdvs, residents, table_residents,
                   disponibilites, cloud_disponibilites>>
    /\ UNCHANGED <<table_familles, console_frame>>
    /\ \E reply \in Replies :
          IF reply = "No"
          THEN /\ UNCHANGED <<familles, rendez_vous, table_inscriptions>>
               /\ last' = FamilleReport("refuse_inscription", f, "No", FALSE, "none")
               /\ calls' = <<>>
          ELSE \E outcome \in SendOutcomes, commit \in Commits :
                  IF commit = "fail"
                  THEN /\ UNCHANGED <<familles, rendez_vous, table_inscriptions>>
                       /\ last' = FamilleReport("refuse_inscription", f, "Yes", FALSE, "critical")
                       /\ calls' = <<send_email_call(outcome), "commit_raises", "rollback">>
                  ELSE /\ familles' = [familles EXCEPT ![f] = NoRow]
                       /\ rendez_vous' = cascade_rdvs(rendez_vous, {f})
                       /\ table_inscriptions' = Inscriptions(familles')
                       /\ last' = FamilleReport("refuse_inscription", f, "Yes", TRUE, "info_email_sent")
                       /\ calls' = <<send_email_call(outcome), "commit">>
    /\ sessions' = scoped_session(last'.answer, sessions)

\* -------------------------------------------------------------- residents
\* What a handler of the residents leaves behind, as Report does; pre is the
\* resident row as stored when the handler was invoked.
ResidentReport(op, r, answer, committed, report) ==
    [op |-> op, id |-> r, answer |-> answer, committed |-> committed, report |-> report,
     pre |-> residents[r], opened |-> NoUrl]

\* Variant that destroys the row instead of clearing its flag.
deactivate_row_deleted(row) == NoRow

deactivate_row(row) == [row EXCEPT !.actif = FALSE]

deactivate_resident(r) ==
    /\ r \in table_residents
    /\ UNCHANGED <<rendez_vous, table_demandes, calendar_rdvs, familles, table_inscriptions,
                   disponibilites, cloud_disponibilites>>
    /\ UNCHANGED <<table_familles, console_frame>>
    /\ \E reply \in Replies :
          IF reply = "No"
          THEN /\ UNCHANGED <<residents, table_residents>>
               /\ last' = ResidentReport("deactivate_resident", r, "No", FALSE, "none")
               /\ calls' = <<>>
          ELSE IF residents[r] = NoRow
          THEN /\ UNCHANGED <<residents, table_residents>>
               /\ last' = ResidentReport("deactivate_resident", r, "Yes", FALSE, "warning")
               /\ calls' = <<>>
          ELSE \E commit \in Commits :
                  IF commit = "fail"
                  THEN /\ UNCHANGED <<residents, table_residents>>
                       /\ last' = ResidentReport("deactivate_resident", r, "Yes", FALSE, "critical")
                       /\ calls' = <<"commit_raises", "rollback">>
                  ELSE /\ residents' = [residents EXCEPT ![r] = deactivate_row(@)]
                       /\ table_residents' = ActiveResidents(residents')
                       /\ last' = ResidentReport("deactivate_resident", r, "Yes", TRUE, "info")
                       /\ calls' = <<"commit">>
    /\ sessions' = scoped_session(last'.answer, sessions)

\* Variant of the cascade that leaves the appointments of the resident.
delete_rdvs_none(store, r) == store

\* for rdv in query(RendezVous).filter(resident_id == r): db.delete(rdv)
delete_rdvs(store, r) ==
    [i \in RdvIds |-> IF store[i] # NoRow /\ store[i].resident_id = r THEN NoRow ELSE store[i]]

\* query(Famille).filter(resident_id == r): the families the hard delete removes.
familles_of(store, r) == {f \in FamilleIds : store[f] # NoRow /\ store[f].resident_id = r}

\* Variant of the hard delete that leaves the families of the resident.
delete_familles_none(store, r) == store

\* for famille in query(Famille).filter(resident_id == r): db.delete(famille)
delete_familles(store, r) ==
    [f \in FamilleIds |-> IF store[f] # NoRow /\ store[f].resident_id = r THEN NoRow ELSE store[f]]

\* The hard delete of a resident: the handler whose body follows edit_famille
\* in the source.  It reloads the residents table only; the other views keep
\* their objects.
delete_resident(r) ==
    /\ r \in table_residents
    /\ UNCHANGED <<table_demandes, calendar_rdvs, table_inscriptions,
                   disponibilites, cloud_disponibilites>>
    /\ UNCHANGED <<table_familles, console_frame>>
    /\ \E reply \in Replies :
          IF reply = "No"
          THEN /\ UNCHANGED <<rendez_vous, familles, residents, table_residents>>
               /\ last' = ResidentReport("delete_resident", r, "No", FALSE, "none")
               /\ calls' = <<>>
          ELSE IF residents[r] = NoRow
          THEN /\ UNCHANGED <<rendez_vous, familles, residents, table_residents>>
               /\ last' = ResidentReport("delete_resident", r, "Yes", FALSE, "warning")
               /\ calls' = <<>>
          ELSE \E commit \in Commits :
                  IF commit = "fail"
                  THEN /\ UNCHANGED <<rendez_vous, familles, residents, table_residents>>
                       /\ last' = ResidentReport("delete_resident", r, "Yes", FALSE, "critical")
                       /\ calls' = <<"commit_raises", "rollback">>
                  ELSE /\ rendez_vous' = cascade_rdvs(delete_rdvs(rendez_vous, r), familles_of(familles, r))
                       /\ familles' = delete_familles(familles, r)
                       /\ residents' = [residents EXCEPT ![r] = NoRow]
                       /\ table_residents' = ActiveResidents(residents')
                       /\ last' = ResidentReport("delete_resident", r, "Yes", TRUE, "info")
                       /\ calls' = <<"commit">>
    /\ sessions' = scoped_session(last'.answer, sessions)

\* ----------------------------------------------------------- availabilities
\* query(Disponibilite).filter(actif == True): the ids of the local rows the
\* synchronisation reads.
active_dispos(store) == {i \in DispoIds : store[i] # NoRow /\ store[i].actif}

\* The parameters :j, :hd, :hf, :t, :a of one INSERT.
insert_values(d) ==
    [jour_semaine |-> d.jour_semaine, heure_debut |-> d.heure_debut, heure_fin |-> d.heure_fin,
     type |-> d.type, actif |-> d.actif]

\* The rows the INSERTs of the loop add for the local rows `ids`.
RECURSIVE inserted(_, _)
inserted(store, ids) ==
    IF ids = {}
    THEN EmptyBag
    ELSE LET i == CHOOSE x \in ids : TRUE
         IN  SetToBag({insert_values(store[i])}) (+) inserted(store, ids \ {i})

\* Variant of the DELETE that removes nothing.
cloud_delete_none(table) == table

\* DELETE FROM disponibilites, committed.
cloud_delete(table) == EmptyBag

\* Variant of the close that keeps the rows of the open transaction.
cloud_close_keeps_pending(committed, pending) == committed (+) pending

\* cloud_db.close() in the finally: the INSERTs not yet committed are dropped.
cloud_close(committed, pending) == committed

\* Where the synchronisation raises: nowhere; before the DELETE is committed
\* (the local query, the connection, the table creation, the DELETE or its
\* commit); at one of the INSERTs; at the commit of the INSERTs.
Failures == {"none", "before_delete", "insert", "commit_inserts"}

\* What synchroniser_disponibilites leaves behind, as Report does; pre is the
\* cloud table as it was, previous the box of the synchronisation that ran
\* just before this one, if the last handler was one.
SyncReport(answer, report, phase) ==
    [op |-> "synchroniser_disponibilites", id |-> 1, answer |-> answer,
     committed |-> (report = "info"), report |-> report, pre |-> cloud_disponibilites,
     previous |-> IF last.op = "synchroniser_disponibilites" THEN last.report ELSE "none",
     phase |-> phase, opened |-> NoUrl]

synchroniser_disponibilites ==
    /\ UNCHANGED <<rendez_vous, table_demandes, calendar_rdvs, residents, familles,
                   table_inscriptions, table_residents, disponibilites>>
    /\ UNCHANGED <<table_familles, console_frame>>
    /\ \E reply \in Replies :
          IF reply = "No"
          THEN /\ UNCHANGED cloud_disponibilites
               /\ last' = SyncReport("No", "none", "none")
               /\ calls' = <<>>
          ELSE \E failure \in Failures :
                  LET dispos == active_dispos(disponibilites)
                  IN  IF failure = "before_delete"
                      THEN /\ UNCHANGED cloud_disponibilites
                           /\ last' = SyncReport("Yes", "critical", failure)
                           /\ calls' = <<>>
                      ELSE IF dispos = {}
                      THEN /\ UNCHANGED cloud_disponibilites
                           /\ last' = SyncReport("Yes", "warning", "none")
                           /\ calls' = <<>>
                      ELSE IF failure = "insert"
                      THEN \E done \in SUBSET dispos :
                              /\ done # dispos
                              /\ cloud_disponibilites' =
                                    cloud_close(cloud_delete(cloud_disponibilites),
                                                inserted(disponibilites, done))
                              /\ last' = SyncReport("Yes", "critical", failure)
                              /\ calls' = <<"cloud_commit">>
                      ELSE IF failure = "commit_inserts"
                      THEN /\ cloud_disponibilites' =
                                 cloud_close(cloud_delete(cloud_disponibilites),
                                             inserted(disponibilites, dispos))
                           /\ last' = SyncReport("Yes", "critical", failure)
                           /\ calls' = <<"cloud_commit", "cloud_commit_raises">>
                      ELSE /\ cloud_disponibilites' =
                                 cloud_delete(cloud_disponibilites) (+) inserted(disponibilites, dispos)
                           /\ last' = SyncReport("Yes", "info", "none")
                           /\ calls' = <<"cloud_commit", "cloud_commit">>
    /\ sessions' = IF last'.answer = "No" THEN sessions
                   ELSE IF last'.report = "warning" \/ last'.phase = "before_delete"
                   THEN db_close(SessionLocal(sessions))
                   ELSE db_close(db_close(SessionLocal(SessionLocal(sessions))))

\* The availability dialog: staff add, change, switch off or remove one
\* local availability row.
open_disponibilites_dialog ==
    /\ UNCHANGED <<rendez_vous, table_demandes, calendar_rdvs, residents, familles,
                   table_inscriptions, table_residents, cloud_disponibilites>>
    /\ UNCHANGED <<table_familles, console_frame, sessions>>
    /\ \E i \in DispoIds, row \in DispoRows \cup {NoRow} :
          /\ row # disponibilites[i]
          /\ disponibilites' = [disponibilites EXCEPT ![i] = row]
    /\ last' = [op |-> "open_disponibilites_dialog", id |-> 1, answer |-> "Yes",
                committed |-> TRUE, report |-> "none", pre |-> NoRow, opened |-> NoUrl]
    /\ calls' = <<"commit">>

\* The 30 s timer tick: load_demandes, the calendar's load_month and
\* load_residents and load_familles reload their views from the store;
\* load_inscriptions is not called.
auto_refresh_all ==
    /\ UNCHANGED <<rendez_vous, residents, familles, table_inscriptions,
                   disponibilites, cloud_disponibilites>>
    /\ UNCHANGED console_frame
    /\ table_demandes' = Pending(rendez_vous)
    /\ calendar_rdvs' = Snapshot(rendez_vous)
    /\ table_residents' = ActiveResidents(residents)
    /\ table_familles' = ActiveFamilles(familles)
    /\ last' = Report("auto_refresh_all", 1, "Yes", FALSE, "none", NoUrl)
    /\ calls' = <<>>
    /\ sessions' = db_close(SessionLocal(sessions))

\* ---------------------------------------------------------------- families
\* The delete button of the families table.  The handler reloads the families
\* table only.
delete_famille(f) ==
    /\ f \in table_familles
    /\ UNCHANGED <<table_demandes, calendar_rdvs, residents, table_inscriptions, table_residents,
                   disponibilites, cloud_disponibilites>>
    /\ UNCHANGED console_frame
    /\ \E reply \in Replies :
          IF reply = "No"
          THEN /\ UNCHANGED <<familles, rendez_vous, table_familles>>
               /\ last' = FamilleReport("delete_famille", f, "No", FALSE, "none")
               /\ calls' = <<>>
          ELSE IF familles[f] = NoRow
          THEN /\ UNCHANGED <<familles, rendez_vous, table_familles>>
               /\ last' = FamilleReport("delete_famille", f, "Yes", FALSE, "warning")
               /\ calls' = <<>>
          ELSE \E commit \in Commits :
                  IF commit = "fail"
                  THEN /\ UNCHANGED <<familles, rendez_vous, table_familles>>
                       /\ last' = FamilleReport("delete_famille", f, "Yes", FALSE, "critical")
                       /\ calls' = <<"commit_raises", "rollback">>
                  ELSE /\ familles' = [familles EXCEPT ![f] = NoRow]
                       /\ rendez_vous' = cascade_rdvs(rendez_vous, {f})
                       /\ table_familles' = ActiveFamilles(familles')
                       /\ last' = FamilleReport("delete_famille", f, "Yes", TRUE, "info")
                       /\ calls' = <<"commit">>
    /\ sessions' = scoped_session(last'.answer, sessions)

\* ------------------------------------------------------------ portal (cloud)
\* Outcomes of requests.post(..., timeout=5): status 200, another status, or
\* an exception (no connection, or no answer within the timeout).
PostOutcomes == {"200", "non_200", "raises"}

\* What sync_delete_famille_cloud hands back to its caller: it has no return
\* statement and catches every exception.
sync_delete_return(outcome) == "None"

\* What sync_delete_famille_cloud prints.
sync_delete_print(outcome) == IF outcome = "200" THEN "print_ok" ELSE "print_error"

\* POST /api/famille/{id}/delete at the portal: the family is soft-deleted.
cloud_soft_delete(table, f) == table \ {f}

\* The request for family f.  A request that ran into the timeout may or may
\* not have been served by the portal.
sync_delete_famille_cloud(f) ==
    /\ UNCHANGED <<rendez_vous, table_demandes, calendar_rdvs, residents, familles,
                   table_inscriptions, table_residents, disponibilites, cloud_disponibilites>>
    /\ UNCHANGED <<table_familles, rdv_famille, cloud_residents, shown, sessions>>
    /\ \E outcome \in PostOutcomes :
          /\ \/ /\ outcome = "200"
                /\ cloud_familles' = cloud_soft_delete(cloud_familles, f)
             \/ /\ outcome = "non_200"
                /\ UNCHANGED cloud_familles
             \/ /\ outcome = "raises"
                /\ cloud_familles' \in {cloud_familles, cloud_soft_delete(cloud_familles, f)}
          /\ last' = [op |-> "sync_delete_famille_cloud", id |-> f, answer |-> "Yes",
                      committed |-> (outcome = "200"), report |-> sync_delete_print(outcome),
                      pre |-> cloud_familles, opened |-> NoUrl,
                      returned |-> sync_delete_return(outcome)]
          /\ calls' = <<"post_" \o outcome>>

\* Outcomes of subprocess.run(..., timeout=30) of the resident synchronisation
\* script: exit code 0, another exit code, or an exception (the interpreter
\* or the script is missing, or the timeout has expired).
RunOutcomes == {"returncode_0", "returncode_nonzero", "raises"}

\* Variant that shows the success box whatever the run gave.
sync_to_cloud_report_always_info(run) == "info"

sync_to_cloud_report(run) ==
    CASE run = "returncode_0" -> "info"
      [] run = "returncode_nonzero" -> "warning"
      [] run = "raises" -> "critical"

\* The resident synchronisation of the script: each local resident of `ids`
\* is created or updated at the portal under its natural key; nothing is
\* removed there.
upsert_residents(cloud, local, ids) ==
    [r \in ResidentIds |-> IF r \in ids THEN local[r] ELSE cloud[r]]

StoredResidents == {r \in ResidentIds : residents[r] # NoRow}

\* Variant of the test of the answer that lets a No through.
declines_never(reply) == FALSE

\* `if reply != QMessageBox.Yes: return`
declines(reply) == reply # "Yes"

\* The button "synchroniser les résidents".  A run that ends with an error
\* has published the residents it reached before.
sync_to_cloud ==
    /\ UNCHANGED <<rendez_vous, table_demandes, calendar_rdvs, residents, familles,
                   table_inscriptions, table_residents, disponibilites, cloud_disponibilites>>
    /\ UNCHANGED <<table_familles, rdv_famille, cloud_familles, shown, sessions>>
    /\ \E reply \in Replies :
          IF declines(reply)
          THEN /\ UNCHANGED cloud_residents
               /\ last' = [op |-> "sync_to_cloud", id |-> 1, answer |-> reply, committed |-> FALSE,
                           report |-> "none", pre |-> cloud_residents, opened |-> NoUrl]
               /\ calls' = <<>>
          ELSE \E run \in RunOutcomes, done \in SUBSET StoredResidents :
                  /\ run = "returncode_0" => done = StoredResidents
                  /\ cloud_residents' = upsert_residents(cloud_residents, residents, done)
                  /\ last' = [op |-> "sync_to_cloud", id |-> 1, answer |-> reply,
                              committed |-> (run = "returncode_0"),
                              report |-> sync_to_cloud_report(run),
                              pre |-> cloud_residents, opened |-> NoUrl]
                  /\ calls' = <<"run_" \o run>>

\* ------------------------------------------------------------ the widget
\* hideEvent and showEvent hide and show the cursor; neither touches
\* refresh_timer, which setup_auto_refresh has started.
hideEvent ==
    /\ shown
    /\ shown' = FALSE
    /\ UNCHANGED <<rendez_vous, table_demandes, calendar_rdvs, residents, familles,
                   table_inscriptions, table_residents, disponibilites, cloud_disponibilites>>
    /\ UNCHANGED <<table_familles, rdv_famille, cloud_familles, cloud_residents, sessions>>
    /\ last' = Report("hideEvent", 1, "Yes", FALSE, "none", NoUrl)
    /\ calls' = <<"hide_cursor">>

showEvent ==
    /\ ~shown
    /\ shown' = TRUE
    /\ UNCHANGED <<rendez_vous, table_demandes, calendar_rdvs, residents, familles,
                   table_inscriptions, table_residents, disponibilites, cloud_disponibilites>>
    /\ UNCHANGED <<table_familles, rdv_famille, cloud_familles, cloud_residents, sessions>>
    /\ last' = Report("showEvent", 1, "Yes", FALSE, "none", NoUrl)
    /\ calls' = <<"show_cursor">>

Next ==
    \/ \E d \in RdvIds : accept_demande(d)
    \/ \E d \in RdvIds : refuse_demande(d)
    \/ \E o \in RdvIds : start_call(o)
    \/ \E o \in RdvIds : finish_rdv(o)
    \/ \E o \in RdvIds : cancel_rdv(o)
    \/ \E o \in RdvIds : delete_rdv(o)
    \/ auto_refresh_all

Spec == Init /\ [][Next]_vars

\* The registrations next to the requests: every request is pending and
\* without a link, every family is active or waits for approval.
InitInscriptions ==
    /\ rendez_vous \in [RdvIds -> Rows]
    /\ \A i \in RdvIds : rendez_vous[i].statut = EN_ATTENTE /\ rendez_vous[i].lien_jitsi = NoUrl
    /\ residents = [r \in ResidentIds |-> [actif |-> TRUE]]
    /\ familles \in [FamilleIds -> FamilleRows]
    /\ disponibilites = [i \in DispoIds |-> NoRow]
    /\ cloud_disponibilites = EmptyBag
    /\ table_demandes = Pending(rendez_vous)
    /\ calendar_rdvs = Snapshot(rendez_vous)
    /\ table_inscriptions = Inscriptions(familles)
    /\ table_residents = ActiveResidents(residents)
    /\ table_familles = ActiveFamilles(familles)
    /\ rdv_famille = [i \in RdvIds |-> i]
    /\ cloud_familles = FamilleIds
    /\ cloud_residents = [r \in ResidentIds |-> NoRow]
    /\ sessions = 0
    /\ shown = TRUE
    /\ last = Report("__init__", 1, "Yes", FALSE, "none", NoUrl)
    /\ calls = <<>>

NextInscriptions ==
    \/ \E d \in RdvIds : accept_demande(d)
    \/ \E f \in FamilleIds : validate_inscription(f)
    \/ \E f \in FamilleIds : refuse_inscription(f)

SpecInscriptions == InitInscriptions /\ [][NextInscriptions]_vars

\* The residents with their families and appointments: every appointment is
\* planned, every resident and family is stored, active or not, every family
\* and appointment refers to a stored resident, and every appointment is one
\* of a family of its resident, as the portal books them.
InitResidents ==
    /\ rendez_vous \in [RdvIds -> Rows]
    /\ \A i \in RdvIds : rendez_vous[i].statut = PLANIFIE /\ rendez_vous[i].lien_jitsi = PortalLink(i)
    /\ residents \in [ResidentIds -> ResidentRows]
    /\ familles \in [FamilleIds -> FamilleRows]
    /\ disponibilites = [i \in DispoIds |-> NoRow]
    /\ cloud_disponibilites = EmptyBag
    /\ table_demandes = Pending(rendez_vous)
    /\ calendar_rdvs = Snapshot(rendez_vous)
    /\ table_inscriptions = Inscriptions(familles)
    /\ table_residents = ActiveResidents(residents)
    /\ table_familles = ActiveFamilles(familles)
    /\ rdv_famille = [i \in RdvIds |-> i]
    /\ \A i \in RdvIds : familles[rdv_famille[i]].resident_id = rendez_vous[i].resident_id
    /\ cloud_familles = FamilleIds
    /\ cloud_residents = [r \in ResidentIds |-> NoRow]
    /\ sessions = 0
    /\ shown = TRUE
    /\ last = Report("__init__", 1, "Yes", FALSE, "none", NoUrl)
    /\ calls = <<>>

NextResidents ==
    \/ \E r \in ResidentIds : deactivate_resident(r)
    \/ \E r \in ResidentIds : delete_resident(r)
    \/ auto_refresh_all
    \/ hideEvent
    \/ showEvent

SpecResidents == InitResidents /\ [][NextResidents]_vars

\* The availabilities: any local rows, and in the cloud table what an
\* earlier synchronisation has left, rows that were active when copied.
InitDisponibilites ==
    /\ rendez_vous = [i \in RdvIds |-> NoRow]
    /\ residents = [r \in ResidentIds |-> [actif |-> TRUE]]
    /\ familles = [f \in FamilleIds |-> [actif |-> TRUE, resident_id |-> f]]
    /\ disponibilites \in [DispoIds -> DispoRows \cup {NoRow}]
    /\ cloud_disponibilites \in {SetToBag(S) : S \in SUBSET {r \in DispoRows : r.actif}}
    /\ table_demandes = Pending(rendez_vous)
    /\ calendar_rdvs = Snapshot(rendez_vous)
    /\ table_inscriptions = Inscriptions(familles)
    /\ table_residents = ActiveResidents(residents)
    /\ table_familles = ActiveFamilles(familles)
    /\ rdv_famille = [i \in RdvIds |-> i]
    /\ cloud_familles = FamilleIds
    /\ cloud_residents = [r \in ResidentIds |-> NoRow]
    /\ sessions = 0
    /\ shown = TRUE
    /\ last = [op |-> "__init__", id |-> 1, answer |-> "Yes", committed |-> FALSE,
               report |-> "none", pre |-> NoRow, opened |-> NoUrl]
    /\ calls = <<>>

NextDisponibilites ==
    \/ synchroniser_disponibilites
    \/ open_disponibilites_dialog

SpecDisponibilites == InitDisponibilites /\ [][NextDisponibilites]_vars

\* The whole console over a small store: resident 1 alone, with one
\* appointment, a pending request or a planned appointment with its link; an
\* active family
\* and a registration waiting for approval; one active availability; a portal
\* that knows both families and has not been synchronised yet.
ConsoleRdv(i) ==
    IF i = 1
    THEN [statut |-> EN_ATTENTE, lien_jitsi |-> NoUrl, resident_id |-> 1, date_rdv |-> 1]
    ELSE [statut |-> PLANIFIE, lien_jitsi |-> PortalLink(i), resident_id |-> 1, date_rdv |-> 1]

InitConsole ==
    /\ rendez_vous \in {[i \in RdvIds |-> IF i = k THEN ConsoleRdv(i) ELSE NoRow] : k \in RdvIds}
    /\ residents = [r \in ResidentIds |-> IF r = 1 THEN [actif |-> TRUE] ELSE NoRow]
    /\ familles = [f \in FamilleIds |-> [actif |-> (f = 1), resident_id |-> 1]]
    /\ disponibilites = [i \in DispoIds |->
                            IF i = 1
                            THEN [jour_semaine |-> 0, heure_debut |-> "14:00", heure_fin |-> "15:00",
                                  type |-> "visio", actif |-> TRUE]
                            ELSE NoRow]
    /\ cloud_disponibilites = EmptyBag
    /\ table_demandes = Pending(rendez_vous)
    /\ calendar_rdvs = Snapshot(rendez_vous)
    /\ table_inscriptions = Inscriptions(familles)
    /\ table_residents = ActiveResidents(residents)
    /\ table_familles = ActiveFamilles(familles)
    /\ rdv_famille = [i \in RdvIds |-> 1]
    /\ cloud_familles = FamilleIds
    /\ cloud_residents = [r \in ResidentIds |-> NoRow]
    /\ sessions = 0
    /\ shown = TRUE
    /\ last = Report("__init__", 1, "Yes", FALSE, "none", NoUrl)
    /\ calls = <<>>

NextConsole ==
    \/ \E d \in RdvIds : accept_demande(d)
    \/ \E d \in RdvIds : refuse_demande(d)
    \/ \E o \in RdvIds : start_call(o)
    \/ \E o \in RdvIds : finish_rdv(o)
    \/ \E o \in RdvIds : cancel_rdv(o)
    \/ \E o \in RdvIds : delete_rdv(o)
    \/ \E f \in FamilleIds : validate_inscription(f)
    \/ \E f \in FamilleIds : refuse_inscription(f)
    \/ \E f \in FamilleIds : delete_famille(f)
    \/ \E f \in FamilleIds : sync_delete_famille_cloud(f)
    \/ \E r \in ResidentIds : deactivate_resident(r)
    \/ synchroniser_disponibilites
    \/ sync_to_cloud

SpecConsole == InitConsole /\ [][NextConsole]_vars

\* The deletes: every resident is stored and active, every family is stored,
\* active or waiting for approval, and every appointment is planned.  An
\* appointment names its resident and its family separately, and the two
\* need not agree: nothing in the console makes the family of an appointment
\* one of the families of its resident.
InitDeletes ==
    /\ rendez_vous \in [RdvIds -> Rows]
    /\ \A i \in RdvIds : rendez_vous[i].statut = PLANIFIE /\ rendez_vous[i].lien_jitsi = PortalLink(i)
    /\ residents = [r \in ResidentIds |-> [actif |-> TRUE]]
    /\ familles \in [FamilleIds -> FamilleRows]
    /\ disponibilites = [i \in DispoIds |-> NoRow]
    /\ cloud_disponibilites = EmptyBag
    /\ table_demandes = Pending(rendez_vous)
    /\ calendar_rdvs = Snapshot(rendez_vous)
    /\ table_inscriptions = Inscriptions(familles)
    /\ table_residents = ActiveResidents(residents)
    /\ table_familles = ActiveFamilles(familles)
    /\ rdv_famille \in [RdvIds -> FamilleIds]
    /\ cloud_familles = FamilleIds
    /\ cloud_residents = [r \in ResidentIds |-> NoRow]
    /\ sessions = 0
    /\ shown = TRUE
    /\ last = Report("__init__", 1, "Yes", FALSE, "none", NoUrl)
    /\ calls = <<>>

NextDeletes ==
    \/ \E f \in FamilleIds : delete_famille(f)
    \/ \E f \in FamilleIds : refuse_inscription(f)
    \/ \E o \in RdvIds : delete_rdv(o)
    \/ \E r \in ResidentIds : delete_resident(r)

SpecDeletes == InitDeletes /\ [][NextDeletes]_vars

\* ------------------------------------------------------------ properties
Exists(i) == rendez_vous[i] # NoRow

StatutChangesTo(i, statut) ==
    /\ rendez_vous[i] # NoRow
    /\ rendez_vous'[i] # NoRow
    /\ rendez_vous[i].statut # statut
    /\ rendez_vous'[i].statut = statut

\* C1: once the stored status of an appointment is Refusé, Annulé or Terminé,
\* no staff action changes it while the row exists, and a confirmed staff
\* action on such a row does not go through as a success.
StaffActions == {"accept_demande", "refuse_demande", "start_call", "finish_rdv", "cancel_rdv"}

C1_Terminality ==
    [][/\ \A i \in RdvIds :
             (Exists(i) /\ rendez_vous[i].statut \in Terminal /\ rendez_vous'[i] # NoRow)
                 => rendez_vous'[i].statut = rendez_vous[i].statut
       /\ (/\ last'.op \in StaffActions
           /\ last'.answer = "Yes"
           /\ Exists(last'.id)
           /\ rendez_vous[last'.id].statut \in Terminal)
              => ~last'.committed]_vars

\* C2: in every reachable state the status of every stored appointment is one
\* of the seven statuses of the enum.
C2_StatutInEnum == \A i \in RdvIds : Exists(i) => rendez_vous[i].statut \in Statuts

\* Some handler has written a new status into an existing row.
C2_Witness ==
    /\ last.op \in StaffActions
    /\ last.committed
    /\ last.pre # NoRow
    /\ Exists(last.id)
    /\ rendez_vous[last.id].statut # last.pre.statut

\* C3: right after accept_demande was confirmed and committed for a row that
\* was En attente, the stored row is Planifié and has a non-empty link.
C3_AcceptPlanifieWithLink ==
    (/\ last.op = "accept_demande"
     /\ last.committed
     /\ last.pre.statut = EN_ATTENTE)
        => /\ Exists(last.id)
           /\ rendez_vous[last.id].statut = PLANIFIE
           /\ rendez_vous[last.id].lien_jitsi # NoUrl

\* An approval of a pending request without a link has been committed and the
\* link was allocated by it.
C3_Witness ==
    /\ last.op = "accept_demande"
    /\ last.committed
    /\ last.pre.statut = EN_ATTENTE
    /\ last.pre.lien_jitsi = NoUrl
    /\ rendez_vous[last.id].lien_jitsi = JitsiLink(last.pre.resident_id, strftime(last.pre.date_rdv))

\* C4: a non-empty link of a stored appointment is never changed by any step.
C4_LinkNeverRegenerated ==
    [][\A i \in RdvIds :
          (Exists(i) /\ rendez_vous[i].lien_jitsi # NoUrl /\ rendez_vous'[i] # NoRow)
              => rendez_vous'[i].lien_jitsi = rendez_vous[i].lien_jitsi]_vars

\* An approval has been committed for a row that already had a link.
C4_Witness ==
    /\ last.op = "accept_demande"
    /\ last.committed
    /\ last.pre.lien_jitsi # NoUrl
    /\ rendez_vous[last.id].statut = PLANIFIE
    /\ rendez_vous[last.id].lien_jitsi = last.pre.lien_jitsi

\* C5: no two distinct stored appointments hold the same non-empty link.
C5_LinksUnique ==
    \A i, j \in RdvIds :
        (i # j /\ Exists(i) /\ Exists(j) /\ rendez_vous[i].lien_jitsi # NoUrl)
            => rendez_vous[i].lien_jitsi # rendez_vous[j].lien_jitsi

\* C6: right after start_call on an appointment stored without a link, a
\* warning was shown, no URL was opened and the stored row is as before.
C6_StartCallWithoutLink ==
    (/\ last.op = "start_call"
     /\ last.pre # NoRow
     /\ last.pre.lien_jitsi = NoUrl)
        => /\ last.report = "warning"
           /\ last.opened = NoUrl
           /\ rendez_vous[last.id] = last.pre

\* start_call has been invoked on a Planifié appointment without a link.
C6_Witness ==
    /\ last.op = "start_call"
    /\ last.pre # NoRow
    /\ last.pre.lien_jitsi = NoUrl
    /\ last.pre.statut = PLANIFIE
    /\ last.report = "warning"

\* C7: a stored status becomes Planifié or Refusé only from En attente.
C7_OnlyFromEnAttente ==
    [][\A i \in RdvIds :
          (StatutChangesTo(i, PLANIFIE) \/ StatutChangesTo(i, REFUSE))
              => rendez_vous[i].statut = EN_ATTENTE]_vars

\* C8: a stored status becomes En cours only from Planifié or Confirmé.
C8_EnCoursOnlyFromPlanifieConfirme ==
    [][\A i \in RdvIds :
          StatutChangesTo(i, EN_COURS) => rendez_vous[i].statut \in {PLANIFIE, CONFIRME}]_vars

\* C9: a stored status becomes Annulé only from Planifié or Confirmé.
C9_AnnuleOnlyFromPlanifieConfirme ==
    [][\A i \in RdvIds :
          StatutChangesTo(i, ANNULE) => rendez_vous[i].statut \in {PLANIFIE, CONFIRME}]_vars

\* C10: a stored status becomes Terminé only from Planifié, Confirmé or En cours.
C10_TermineOnlyFromActive ==
    [][\A i \in RdvIds :
          StatutChangesTo(i, TERMINE)
              => rendez_vous[i].statut \in {PLANIFIE, CONFIRME, EN_COURS}]_vars

\* The calls of a handler that are attempts to send an email, and those of
\* them that failed.
SendAttempts == {"send_rdv_confirmation", "send_rdv_confirmation_raises",
                 "send_email", "send_email_raises"}

FailedSends == {"send_rdv_confirmation_raises", "send_email_raises"}

\* C11: right after refuse_demande has committed a rejection, the handler has
\* attempted to send an email to the family.
C11_RefusalNotified ==
    (last.op = "refuse_demande" /\ last.committed)
        => \E k \in DOMAIN calls : calls[k] \in SendAttempts

\* C12: a failing notification leaves the transition in place: right after
\* accept_demande whose commit returned and whose is_configured() or send
\* raised, the stored row is Planifié and has its link; right after
\* validate_inscription whose email failed, the stored family is active.
C12_FailedEmailKeepsTransition ==
    /\ (/\ last.op = "accept_demande"
        /\ \E k \in DOMAIN calls : calls[k] \in {"is_configured_raises", "send_rdv_confirmation_raises"})
           => /\ rendez_vous[last.id] # NoRow
              /\ rendez_vous[last.id].statut = PLANIFIE
              /\ rendez_vous[last.id].lien_jitsi = accept_lien(last.pre)
              /\ rendez_vous[last.id].lien_jitsi # NoUrl
    /\ (/\ last.op = "validate_inscription"
        /\ \E k \in DOMAIN calls : calls[k] = "send_email_raises")
           => /\ familles[last.id] # NoRow
              /\ familles[last.id].actif

\* is_configured() has raised after the commit of an approval.
C12_Witness ==
    /\ last.op = "accept_demande"
    /\ calls = <<"commit", "is_configured_raises", "rollback">>
    /\ last.pre.statut = EN_ATTENTE
    /\ rendez_vous[last.id].statut = PLANIFIE

\* C13: in every handler, an attempt to send an email comes after a commit
\* of that handler has returned.
C13_SendOnlyAfterCommit ==
    \A k \in DOMAIN calls :
        calls[k] \in SendAttempts => \E j \in 1..(k - 1) : calls[j] = "commit"

\* C14: right after a handler in which a send failed, the box shown says that
\* the action succeeded and the email was not sent.
C14_FailedSendReported ==
    (\E k \in DOMAIN calls : calls[k] \in FailedSends) => last.report = "info_email_failed"

\* C15: an approval whose commit returns leaves the request Planifié also when
\* another pending, planned or confirmed appointment has the same date and time.
C15_ApprovalNotBlockedBySlot ==
    [][\A d \in RdvIds :
          (/\ last'.op = "accept_demande"
           /\ last'.id = d
           /\ last'.committed
           /\ rendez_vous[d].statut = EN_ATTENTE
           /\ \E j \in RdvIds \ {d} : /\ rendez_vous[j] # NoRow
                                      /\ rendez_vous[j].statut \in Occupied
                                      /\ rendez_vous[j].date_rdv = rendez_vous[d].date_rdv)
              => rendez_vous'[d].statut = PLANIFIE]_vars

\* Two stored appointments are Planifié at the same date and time, the second
\* of them made so by an approval of a pending request.
C15_Witness ==
    /\ last.op = "accept_demande"
    /\ last.committed
    /\ last.pre.statut = EN_ATTENTE
    /\ rendez_vous[last.id].statut = PLANIFIE
    /\ \E j \in RdvIds \ {last.id} : /\ rendez_vous[j] # NoRow
                                    /\ rendez_vous[j].statut = PLANIFIE
                                    /\ rendez_vous[j].date_rdv = rendez_vous[last.id].date_rdv

\* C16: a step of deactivate_resident leaves every family and appointment
\* and every other resident as stored; the resident itself is left as it was
\* or, when the commit returned, with actif = FALSE and nothing else changed.
C16_DeactivateOnlyFlag ==
    [][last'.op = "deactivate_resident"
          => /\ familles' = familles
             /\ rendez_vous' = rendez_vous
             /\ \A r \in ResidentIds \ {last'.id} : residents'[r] = residents[r]
             /\ IF last'.committed
                THEN residents'[last'.id] = [residents[last'.id] EXCEPT !.actif = FALSE]
                ELSE residents'[last'.id] = residents[last'.id]]_vars

\* An active resident who has a family and an appointment has been
\* deactivated, and both are still stored.
C16_Witness ==
    /\ last.op = "deactivate_resident"
    /\ last.committed
    /\ last.pre.actif
    /\ ~residents[last.id].actif
    /\ \E f \in FamilleIds : familles[f] # NoRow /\ familles[f].resident_id = last.id
    /\ \E i \in RdvIds : rendez_vous[i] # NoRow /\ rendez_vous[i].resident_id = last.id

\* C17: a confirmed hard delete of a stored resident whose commit returned
\* has removed, with that one commit, the resident and exactly the families
\* and appointments whose resident_id is that resident; when the commit
\* raised, residents, families and appointments are as before.
C17_HardDeleteCascade ==
    [][(last'.op = "delete_resident" /\ last'.answer = "Yes" /\ residents[last'.id] # NoRow)
          => IF last'.committed
             THEN /\ calls' = <<"commit">>
                  /\ residents' = [residents EXCEPT ![last'.id] = NoRow]
                  /\ \A f \in FamilleIds :
                         familles'[f] = IF familles[f] # NoRow /\ familles[f].resident_id = last'.id
                                        THEN NoRow ELSE familles[f]
                  /\ \A i \in RdvIds :
                         rendez_vous'[i] = IF rendez_vous[i] # NoRow /\ rendez_vous[i].resident_id = last'.id
                                           THEN NoRow ELSE rendez_vous[i]
             ELSE /\ residents' = residents
                  /\ familles' = familles
                  /\ rendez_vous' = rendez_vous]_vars

\* A resident has been hard-deleted together with a family and an
\* appointment, while an appointment of another resident is still stored.
C17_Witness ==
    /\ last.op = "delete_resident"
    /\ last.committed
    /\ residents[last.id] = NoRow
    /\ \E f \in FamilleIds : familles[f] = NoRow
    /\ \E i, j \in RdvIds : rendez_vous[i] = NoRow /\ rendez_vous[j] # NoRow

\* The local rows a synchronisation is to publish.
ActiveLocal == inserted(disponibilites, active_dispos(disponibilites))

\* C18: right after a confirmed synchronisation that ended without the error
\* box, the cloud table holds exactly the active local rows.
C18_CloudEqualsActiveLocal ==
    (/\ last.op = "synchroniser_disponibilites"
     /\ last.answer = "Yes"
     /\ last.report \in {"info", "warning"})
        => cloud_disponibilites = ActiveLocal

\* C19: a synchronisation that completes right after one that completed, with
\* no handler in between, leaves the cloud table as the first left it.
C19_SyncIdempotent ==
    (/\ last.op = "synchroniser_disponibilites"
     /\ last.report \in {"info", "warning"}
     /\ last.previous \in {"info", "warning"})
        => cloud_disponibilites = last.pre

\* Two synchronisations in a row have succeeded over active local rows.
C19_Witness ==
    /\ last.op = "synchroniser_disponibilites"
    /\ last.report = "info"
    /\ last.previous = "info"
    /\ cloud_disponibilites # EmptyBag
    /\ cloud_disponibilites = last.pre

\* C20: a synchronisation that raises after the DELETE was committed leaves
\* in the cloud table a part of the active local rows that is not all of
\* them; and whenever the cloud table gains a row, the step is a synchronisation
\* that succeeded.
C20_FailureLeavesPartUntilSuccess ==
    [][/\ (last'.op = "synchroniser_disponibilites" /\ last'.phase \in {"insert", "commit_inserts"})
           => /\ cloud_disponibilites' \sqsubseteq ActiveLocal
              /\ cloud_disponibilites' # ActiveLocal
       /\ ~(cloud_disponibilites' \sqsubseteq cloud_disponibilites)
           => (last'.op = "synchroniser_disponibilites" /\ last'.report = "info")]_vars

\* The synchronisation has raised at an INSERT and the rows the cloud table
\* held before are gone.
C20_Witness ==
    /\ last.op = "synchroniser_disponibilites"
    /\ last.phase = "insert"
    /\ last.report = "critical"
    /\ last.pre # EmptyBag
    /\ cloud_disponibilites = EmptyBag

\* The stores of the console: the local tables.
LocalStore == <<rendez_vous, residents, familles, disponibilites, rdv_famille>>

\* The stores of the portal.
RemoteStore == <<cloud_disponibilites, cloud_residents, cloud_familles>>

\* C21: a synchronisation that met a failure of the remote side (an exception
\* of synchroniser_disponibilites, a run of sync_to_cloud that raised or ended
\* with a non-zero exit code, a POST of sync_delete_famille_cloud that raised
\* or was not answered 200) has told so in a box or on the console, has left
\* the local store as it was, and has returned with every session closed.
C21_SyncFailureLeavesLocal ==
    [][(\/ (last'.op = "synchroniser_disponibilites" /\ last'.phase # "none")
        \/ (last'.op = "sync_to_cloud" /\ calls' \in {<<"run_returncode_nonzero">>, <<"run_raises">>})
        \/ (last'.op = "sync_delete_famille_cloud" /\ calls' \in {<<"post_non_200">>, <<"post_raises">>}))
          => /\ last'.report \in {"critical", "warning", "print_error"}
             /\ LocalStore' = LocalStore
             /\ sessions' = 0]_vars

\* The synchronisation of the availabilities has failed before its DELETE
\* while active local rows were waiting to be published.
C21_Witness ==
    /\ last.op = "synchroniser_disponibilites"
    /\ last.phase = "before_delete"
    /\ last.report = "critical"
    /\ active_dispos(disponibilites) # {}

\* C24: between two operations no session is open, local or cloud.
C24_NoOpenSession == sessions = 0

\* start_call has opened its session, its commit has raised, and the session
\* is closed.
C24_Witness ==
    /\ last.op = "start_call"
    /\ last.report = "raised"
    /\ calls = <<"commit_raises">>
    /\ sessions = 0

\* C29: a handler that was answered No has left the local and the remote
\* stores as they were and has made no call: no commit, no email, no request.
C29_DeclineIsNoOp ==
    [][last'.answer = "No"
          => /\ LocalStore' = LocalStore
             /\ RemoteStore' = RemoteStore
             /\ calls' = <<>>]_vars

\* The resident synchronisation has been declined after an earlier one had
\* published the resident.
C29_Witness ==
    /\ last.op = "sync_to_cloud"
    /\ last.answer = "No"
    /\ cloud_residents[1] # NoRow
    /\ cloud_residents = last.pre

\* C22: after a POST of sync_delete_famille_cloud that raised (no connection,
\* timeout) or was answered with a status other than 200, what the function
\* hands back to its caller differs from what it hands back after a 200.
C22_RemoteFailureSurfaced ==
    (last.op = "sync_delete_famille_cloud" /\ calls \in {<<"post_non_200">>, <<"post_raises">>})
        => last.returned # sync_delete_return("200")

\* The message boxes by which a handler tells its result.
Boxes == {"info", "info_email_sent", "info_email_failed", "warning", "critical"}

RdvHandlers == {"accept_demande", "refuse_demande", "start_call", "finish_rdv",
                "cancel_rdv", "delete_rdv"}

\* C26: a handler of the appointments that was not answered No has ended
\* with a message box, or, for start_call, with the call opened and its
\* commit returned.
C26_NoSilentNoOp ==
    (last.op \in RdvHandlers /\ last.answer = "Yes")
        => \/ last.report \in Boxes
           \/ (last.op = "start_call" /\ last.committed /\ last.opened # NoUrl)

\* C23: the tick of refresh_timer runs only while the widget is shown: right
\* after a tick, the widget is one that has not been hidden.
C23_NoTickWhileHidden == last.op = "auto_refresh_all" => shown

\* C28: right after a tick, the registrations, the requests, the residents
\* and the families displayed are those of the store.
C28_TickReloadsAllTabs ==
    last.op = "auto_refresh_all"
        => /\ table_inscriptions = Inscriptions(familles)
           /\ table_demandes = Pending(rendez_vous)
           /\ table_residents = ActiveResidents(residents)
           /\ table_familles = ActiveFamilles(familles)

\* C27: a step of validate_inscription on a family waiting for approval whose
\* commit returned leaves that family with actif = TRUE and otherwise as it
\* was, shows as pending registrations exactly the families with
\* actif = FALSE, the approved one not among them, and changes no other
\* family, no resident and no appointment.
C27_ValidateActivates ==
    [][(/\ last'.op = "validate_inscription"
        /\ last'.committed
        /\ familles[last'.id] # NoRow
        /\ ~familles[last'.id].actif)
          => /\ familles'[last'.id] = [familles[last'.id] EXCEPT !.actif = TRUE]
             /\ table_inscriptions' = Inscriptions(familles')
             /\ last'.id \notin table_inscriptions'
             /\ \A g \in FamilleIds \ {last'.id} : familles'[g] = familles[g]
             /\ residents' = residents
             /\ rendez_vous' = rendez_vous
             /\ rdv_famille' = rdv_famille]_vars

\* A registration has been approved while another one is still waiting.
C27_Witness ==
    /\ last.op = "validate_inscription"
    /\ last.committed
    /\ ~last.pre.actif
    /\ familles[last.id].actif
    /\ last.id \in table_familles
    /\ \E g \in FamilleIds \ {last.id} : g \in table_inscriptions /\ ~familles[g].actif

====
